---- MODULE Spec2Model ----
(***************************************************************************)
(* Model of src/app.py: the Flask stock-analysis service.                  *)
(*                                                                         *)
(* Units.  Prices are whole rupees; relative changes (the uniform start    *)
(* offset, the trend, the normal shock, the returns) are in basis points   *)
(* (1 bp = 0.0001), so `x * (1 + c)` is `x * (BP + c) \div BP`.            *)
(* Dates are day numbers counted from 2024-09-01, the handler's default    *)
(* start date.                                                             *)
(***************************************************************************)
EXTENDS Integers, Sequences, FiniteSets, TLC

VARIABLES rng,      \* state of the process-wide np.random generator
          figures,  \* pyplot's global stack of open figures; the last is current
          resp,     \* what the last POST /api/analyze did and answered
          thr,      \* the two concurrent request threads (SpecConc)
          pca       \* input and output of the PCA ordering and summary (SpecPCA)

vars == <<rng, figures, resp, thr, pca>>

----------------------------------------------------------------------------
(* Bounds of the model *)

MaxDay == 9        \* request dates range over day 0 .. MaxDay
SeedDigits == 2    \* period of the modelled random stream
MaxEig == 2        \* eigenvalues drawn for SpecPCA range over 0 .. MaxEig

----------------------------------------------------------------------------
(* Program constants *)

BP == 10000

stocks == <<"RELIANCE.NS", "TCS.NS", "INFY.NS", "HDFCBANK.NS", "ITC.NS">>

base_prices == <<2500, 3500, 1800, 1600, 400>>

volatility == <<200, 150, 180, 160, 120>>

N == Len(stocks)

\* data.get('start_date', '2024-09-01'): day 0, a Sunday (dayofweek 6)
DefaultStart == 0
DefaultStartDayOfWeek == 6
\* data.get('end_date', '2024-10-01')
DefaultEnd == 30

\* Codes of a date field of the request body that is not a date
Absent == -1       \* the key is missing: the default applies
BadDate == -2      \* a value pd.date_range cannot parse

\* Floating-point specials produced by pct_change, cov and the 0/0 division
NaN == -2000000000
Inf == 2000000000

\* round(sin(i * 0.1) * 0.001 * BP) for i = 0 .. 33
SinTable == <<0, 1, 2, 3, 4, 5, 6, 6, 7, 8, 8, 9, 9, 10, 10, 10, 10, 10, 10,
              9, 9, 9, 8, 7, 7, 6, 5, 4, 3, 2, 1, 0, -1, -2>>

----------------------------------------------------------------------------
(* The random source.  np.random is one generator for the whole process.   *)
(* Its stream is modelled as the base-3 digits of a seed, repeated with    *)
(* period SeedDigits; every draw reads the digit at the current position   *)
(* and advances the position.                                              *)

RECURSIVE Pow(_, _)
Pow(b, e) == IF e = 0 THEN 1 ELSE b * Pow(b, e - 1)

\* Values a draw can take: uniform(-0.1, 0.1) in bp, normal(0, sigma) in sigmas
UValues == <<-1000, 0, 1000>>
ZValues == <<-8, 0, 8>>

Seeds == 0 .. (Pow(Len(ZValues), SeedDigits) - 1)

RngStates == [seed : Seeds, pos : 0 .. (SeedDigits - 1)]

Digit(r) == (r.seed \div Pow(Len(ZValues), r.pos)) % Len(ZValues)

Advance(r) == [r EXCEPT !.pos = (r.pos + 1) % SeedDigits]

Uniform(r) == UValues[Digit(r) + 1]

Normal(r, sigma) == ZValues[Digit(r) + 1] * sigma

----------------------------------------------------------------------------
(* generate_sample_data *)

dayofweek(d) == (d + DefaultStartDayOfWeek) % 7

date_range(start, end) ==
    IF start > end THEN << >> ELSE [i \in 1 .. (end - start + 1) |-> start + i - 1]

IsBusinessDayMon6(d) == dayofweek(d) < 6

IsBusinessDay(d) == dayofweek(d) < 5

BusinessDays(start, end) == SelectSeq(date_range(start, end), IsBusinessDay)

trend(i) == SinTable[i + 1]

StepPrice(current_price, k, i, r) ==
    (current_price * (BP + trend(i) + Normal(r, volatility[k]))) \div BP

\* The inner loop over the dates for stock k, from index i on
RECURSIVE Walk(_, _, _, _, _)
Walk(k, n, i, current_price, r) ==
    IF i >= n THEN [prices |-> << >>, rng |-> r]
    ELSE LET rest == Walk(k, n, i + 1, StepPrice(current_price, k, i, r), Advance(r))
         IN [prices |-> <<StepPrice(current_price, k, i, r)>> \o rest.prices,
             rng |-> rest.rng]

\* One iteration of the loop over the stocks
GenStock(k, n, r) ==
    LET current_price == (base_prices[k] * (BP + Uniform(r))) \div BP
    IN Walk(k, n, 0, current_price, Advance(r))

RECURSIVE GenFrom(_, _, _)
GenFrom(k, n, r) ==
    IF k > N THEN [cols |-> << >>, rng |-> r]
    ELSE LET g == GenStock(k, n, r)
             rest == GenFrom(k + 1, n, g.rng)
         IN [cols |-> <<g.prices>> \o rest.cols, rng |-> rest.rng]

DatesParse(start, end) == start # BadDate /\ end # BadDate

\* The data frame (dates and one price column per stock) and the generator
\* state after the call; the caller checks DatesParse first (date_range raises)
generate_sample_data(start, end, r) ==
    LET dates == BusinessDays(start, end)
        g == GenFrom(1, Len(dates), r)
    IN [table |-> [dates |-> dates, cols |-> g.cols], rng |-> g.rng]

EmptyTable == [dates |-> << >>, cols |-> [k \in 1 .. N |-> << >>]]

----------------------------------------------------------------------------
(* calculate_returns: data.pct_change().dropna() *)

PctChange(prev, cur) ==
    IF prev = 0 THEN (IF cur = 0 THEN NaN ELSE Inf)
    ELSE ((cur - prev) * BP) \div prev

\* pct_change: the first row has no previous row
PctCell(col, i) == IF i = 1 THEN NaN ELSE PctChange(col[i - 1], col[i])

\* dropna: the rows with no NaN cell
KeptRowsAll(table) == [i \in 1 .. Len(table.dates) |-> i]

KeptRows(table) ==
    SelectSeq([i \in 1 .. Len(table.dates) |-> i],
              LAMBDA i : \A k \in 1 .. N : PctCell(table.cols[k], i) # NaN)

calculate_returns(table) ==
    LET rows == KeptRows(table)
    IN [dates |-> [j \in 1 .. Len(rows) |-> table.dates[rows[j]]],
        cols |-> [k \in 1 .. N |->
                    [j \in 1 .. Len(rows) |-> PctCell(table.cols[k], rows[j])]]]

----------------------------------------------------------------------------
(* perform_pca_analysis *)

RECURSIVE SumSeq(_)
SumSeq(s) == IF s = << >> THEN 0 ELSE Head(s) + SumSeq(Tail(s))

IsNumber(x) == x # NaN /\ x # Inf

\* pandas' pairwise sample covariance (N - 1 denominator) of two columns:
\* (sum(a*b) - sum(a)*sum(b)/n) / (n - 1), NaN with fewer than two rows
CovEntry(a, b) ==
    LET n == Len(a)
    IN IF n < 2 \/ \E i \in 1 .. n : ~IsNumber(a[i]) \/ ~IsNumber(b[i]) THEN NaN
       ELSE (n * SumSeq([i \in 1 .. n |-> a[i] * b[i]]) - SumSeq(a) * SumSeq(b))
                \div (n * (n - 1))

Cov(returns) == [i \in 1 .. N |-> [j \in 1 .. N |-> CovEntry(returns.cols[i], returns.cols[j])]]

HasNaN(cov_matrix) == \E i, j \in 1 .. N : cov_matrix[i][j] = NaN

\* np.linalg.eig, a library solver, is represented by its contract: N real
\* values, in the solver's own order, whose sum is the trace of the matrix.
\* The spectrum used is the one of the matrix's diagonal part, whose k-th
\* eigenvector is the k-th unit vector.
Eig(cov_matrix) == [k \in 1 .. N |-> cov_matrix[k][k]]

\* np.argsort(eigenvalues): an ascending order of the indices.  The default
\* kind ("quicksort") is not a stable sort, so equal values may come out in
\* any order.
ArgSorts(ev) ==
    {p \in Permutations(1 .. Len(ev)) :
        \A i \in 1 .. (Len(ev) - 1) : ev[p[i]] <= ev[p[i + 1]]}

NotReversed(s) == s

\* [::-1]
Reversed(s) == [i \in 1 .. Len(s) |-> s[Len(s) + 1 - i]]

\* Lines 65-67 for the argsort outcome p: the sorted eigenvalues, and for each
\* column of the sorted eigenvector matrix the original column it holds
SortEigen(ev, p) ==
    LET sorted_indices == Reversed(p)
    IN [eigenvalues |-> [i \in 1 .. Len(ev) |-> ev[sorted_indices[i]]],
        eigenvectors |-> [i \in 1 .. Len(ev) |-> sorted_indices[i]]]

----------------------------------------------------------------------------
(* The 'analysis' object of the response (lines 200-205) *)

\* Float division: 0/0 is nan, x/0 is inf, no exception is raised
FloatPercent(x, total) ==
    IF total = 0 THEN (IF x = 0 THEN NaN ELSE Inf) ELSE (x * 100) \div total

Analysis(sorted, number_of_days) ==
    [main_trend_stock |-> stocks[sorted.eigenvectors[1]],
     variance_explained |-> FloatPercent(sorted.eigenvalues[1], SumSeq(sorted.eigenvalues)),
     total_variance |-> SumSeq(sorted.eigenvalues),
     number_of_days |-> number_of_days]

NoAnalysis ==
    [main_trend_stock |-> "", variance_explained |-> 0, total_variance |-> 0,
     number_of_days |-> 0]

----------------------------------------------------------------------------
(* Charts.  pyplot keeps one process-wide stack of figures; every plotting  *)
(* call acts on the current (last) one.  A figure is the set of artists     *)
(* drawn on it, an artist being <<request, chart>>.                          *)

ChartNames == <<"trend_chart", "returns_chart", "correlation_chart">>

plt_figure(figs) == Append(figs, {})

\* plt.bar / plt.plot / plt.imshow ...: draw on the current figure (gcf makes one)
plt_draw(figs, artist) ==
    IF figs = << >> THEN <<{artist}>>
    ELSE [figs EXCEPT ![Len(figs)] = @ \cup {artist}]

\* plt.savefig: the picture of the current figure
plt_savefig(figs) == IF figs = << >> THEN {} ELSE figs[Len(figs)]

plt_close(figs) == IF figs = << >> THEN figs ELSE SubSeq(figs, 1, Len(figs) - 1)

\* create_*_chart followed by plot_to_base64, run without interruption by
\* request t, for the charts from index c on
RECURSIVE RenderCharts(_, _, _)
RenderCharts(figs, t, c) ==
    IF c > Len(ChartNames) THEN [images |-> << >>, figs |-> figs]
    ELSE LET drawn == plt_draw(plt_figure(figs), <<t, ChartNames[c]>>)
             rest == RenderCharts(plt_close(drawn), t, c + 1)
         IN [images |-> <<plt_savefig(drawn)>> \o rest.images, figs |-> rest.figs]

----------------------------------------------------------------------------
(* fetch_stock_data.  yf.download is a network call of a library: it raises, *)
(* returns an empty frame, or returns a frame of closing prices.            *)

FetchOutcomes == {"raise", "empty", "data"}

\* The closing prices yfinance delivers for [start, end): base price plus a
\* small stock- and day-dependent movement
LiveTable(start, end) ==
    LET dates == BusinessDays(start, end - 1)
    IN [dates |-> dates,
        cols |-> [k \in 1 .. N |->
                    [i \in 1 .. Len(dates) |-> base_prices[k] + ((k * dates[i] * dates[i]) % 7)]]]

\* yfinance can deliver data only for a range that holds a trading day
FetchCan(start, end, outcome) ==
    outcome = "data" => (DatesParse(start, end) /\ BusinessDays(start, end - 1) # << >>)

\* The fallback call of generate_sample_data: date_range raises on a value it
\* cannot parse
Fallback(start, end, r, calls) ==
    IF DatesParse(start, end)
    THEN LET g == generate_sample_data(start, end, r)
         IN [raised |-> FALSE, table |-> g.table, rng |-> g.rng, genCalls |-> calls,
             source |-> "synthetic"]
    ELSE [raised |-> TRUE, table |-> EmptyTable, rng |-> r, genCalls |-> calls,
          source |-> "none"]

\* A fallback made inside the try block (the empty-frame branch) that raises is
\* caught by the except clause, which calls generate_sample_data again
FallbackInsideTry(start, end, r) ==
    IF DatesParse(start, end) THEN Fallback(start, end, r, 1) ELSE Fallback(start, end, r, 2)

fetch_stock_data(start, end, outcome, r) ==
    CASE outcome = "data" ->
            [raised |-> FALSE, table |-> LiveTable(start, end), rng |-> r, genCalls |-> 0,
             source |-> "live"]
      [] outcome = "empty" -> FallbackInsideTry(start, end, r)
      [] outcome = "raise" -> Fallback(start, end, r, 1)

----------------------------------------------------------------------------
(* analyze_stocks: POST /api/analyze *)

\* A request body: no JSON object at all, or an object whose date fields are
\* a day, missing, or not a date
DateFields == (0 .. MaxDay) \cup {Absent, BadDate}

Bodies == [json : BOOLEAN, start_date : DateFields, end_date : DateFields]

NoData == "No data available for the selected date range"

Idle ==
    [phase |-> "idle", json |-> FALSE, start |-> Absent, end |-> Absent,
     fetchAttempts |-> 0, fetchOutcome |-> "none", genCalls |-> 0, source |-> "none",
     stock_data |-> EmptyTable, returnsComputed |-> FALSE, returns |-> EmptyTable,
     pcaRan |-> FALSE, cov_matrix |-> << >>, unsorted |-> << >>, eigenvalues |-> << >>,
     eigenvectors |-> << >>, summaryRan |-> FALSE, analysis |-> NoAnalysis,
     chartsRan |-> FALSE, charts |-> << >>,
     status |-> 0, success |-> FALSE, error |-> ""]

ReturnsEmptyNever(returns) == FALSE

\* returns.empty
ReturnsEmpty(returns) == returns.dates = << >>

Answer(r, status, error) == [r EXCEPT !.status = status, !.error = error]

\* Line 192 on: the covariance matrix is computed and handed to np.linalg.eig,
\* which raises LinAlgError on a matrix with NaN
AfterCov(r2, r, cov_matrix) ==
    IF HasNaN(cov_matrix)
    THEN [rng |-> r, toSort |-> FALSE,
          resp |-> Answer([r2 EXCEPT !.pcaRan = TRUE, !.cov_matrix = cov_matrix],
                          500, "LinAlgError")]
    ELSE [rng |-> r, toSort |-> TRUE,
          resp |-> [r2 EXCEPT !.pcaRan = TRUE, !.cov_matrix = cov_matrix,
                              !.unsorted = Eig(cov_matrix)]]

\* Lines 185-190: the empty return table is answered with 400
AfterReturns(r1, r, returns) ==
    IF ReturnsEmpty(returns)
    THEN [rng |-> r, toSort |-> FALSE,
          resp |-> Answer([r1 EXCEPT !.returnsComputed = TRUE, !.returns = returns],
                          400, NoData)]
    ELSE AfterCov([r1 EXCEPT !.returnsComputed = TRUE, !.returns = returns], r,
                  Cov(returns))

\* Line 183 on, for the result got of fetch_stock_data; an exception of
\* fetch_stock_data reaches the handler's except clause
AfterFetch(start, end, outcome, got) ==
    IF got.raised
    THEN [rng |-> got.rng, toSort |-> FALSE,
          resp |-> [Idle EXCEPT !.phase = "done", !.json = TRUE, !.start = start,
                                !.end = end, !.fetchAttempts = 1,
                                !.fetchOutcome = outcome, !.genCalls = got.genCalls,
                                !.source = got.source,
                                !.status = 500, !.error = "ValueError"]]
    ELSE AfterReturns([Idle EXCEPT !.phase = "done", !.json = TRUE, !.start = start,
                                   !.end = end, !.fetchAttempts = 1,
                                   !.fetchOutcome = outcome, !.genCalls = got.genCalls,
                                   !.source = got.source, !.stock_data = got.table],
                      got.rng, calculate_returns(got.table))

StartOf(body) == IF body.start_date = Absent THEN DefaultStart ELSE body.start_date

EndOf(body) == IF body.end_date = Absent THEN DefaultEnd ELSE body.end_date

\* The handler up to and including np.linalg.eig, for generator state r
Upto(body, outcome, r) ==
    IF ~body.json
    THEN \* request.get_json() is None: data.get raises
         [rng |-> r, toSort |-> FALSE,
          resp |-> [Idle EXCEPT !.phase = "done", !.status = 500, !.error = "AttributeError"]]
    ELSE AfterFetch(StartOf(body), EndOf(body), outcome,
                    fetch_stock_data(StartOf(body), EndOf(body), outcome, r))

Rendered(r3, sorted, drawn) ==
    [figs |-> drawn.figs,
     resp |-> [r3 EXCEPT !.eigenvalues = sorted.eigenvalues,
                         !.eigenvectors = sorted.eigenvectors,
                         !.summaryRan = TRUE,
                         !.analysis = Analysis(sorted, Len(r3.stock_data.dates)),
                         !.chartsRan = TRUE, !.charts = drawn.images,
                         !.status = 200, !.success = TRUE]]

\* The rest of the handler, for the argsort outcome p and the figure stack figs
Finish(r3, p, figs) == Rendered(r3, SortEigen(r3.unsorted, p), RenderCharts(figs, 0, 1))

analyze_stocks ==
    /\ resp.phase = "idle"
    /\ \E body \in Bodies, outcome \in FetchOutcomes :
          /\ FetchCan(StartOf(body), EndOf(body), outcome)
          /\ \E pre \in {Upto(body, outcome, rng)} :
                /\ rng' = pre.rng
                /\ IF pre.toSort
                   THEN \E p \in ArgSorts(pre.resp.unsorted) :
                           \E fin \in {Finish(pre.resp, p, figures)} :
                               resp' = fin.resp /\ figures' = fin.figs
                   ELSE resp' = pre.resp /\ figures' = figures
    /\ UNCHANGED <<thr, pca>>

\* The response is sent; nothing of the request is kept
Deliver ==
    /\ resp.phase = "done"
    /\ resp' = Idle
    /\ UNCHANGED <<rng, figures, thr, pca>>

NoThreads == << >>

NoPca ==
    [stage |-> "none", unsorted |-> << >>, eigenvalues |-> << >>, eigenvectors |-> << >>,
     analysis |-> NoAnalysis]

Init ==
    /\ rng \in RngStates
    /\ figures = << >>
    /\ resp = Idle
    /\ thr = NoThreads
    /\ pca = NoPca

Next == analyze_stocks \/ Deliver

Spec == Init /\ [][Next]_vars

----------------------------------------------------------------------------
(* The ordering of perform_pca_analysis and the summary, as functions of    *)
(* the eigenvalues the solver returns.                                      *)

PcaInputs == [1 .. N -> 0 .. MaxEig]

InitPCA ==
    /\ rng = [seed |-> 0, pos |-> 0]
    /\ figures = << >>
    /\ resp = Idle
    /\ thr = NoThreads
    /\ pca \in {[NoPca EXCEPT !.stage = "input", !.unsorted = ev] : ev \in PcaInputs}

\* Lines 65-67
PcaSort ==
    /\ pca.stage = "input"
    /\ \E p \in ArgSorts(pca.unsorted) :
          \E sorted \in {SortEigen(pca.unsorted, p)} :
              pca' = [pca EXCEPT !.stage = "sorted", !.eigenvalues = sorted.eigenvalues,
                                 !.eigenvectors = sorted.eigenvectors]
    /\ UNCHANGED <<rng, figures, resp, thr>>

\* Lines 200-205; the number of days does not depend on the eigenvalues
PcaSummary ==
    /\ pca.stage = "sorted"
    /\ pca' = [pca EXCEPT !.stage = "summarised",
                          !.analysis = Analysis(pca, 0)]
    /\ UNCHANGED <<rng, figures, resp, thr>>

NextPCA == PcaSort \/ PcaSummary

SpecPCA == InitPCA /\ [][NextPCA]_vars

----------------------------------------------------------------------------
(* Two requests served at the same time by the threaded development server. *)
(* Both find the market data unavailable and fall back to the generator.    *)
(* A thread is interrupted only between two stocks of the generator loop,   *)
(* and before and after plot_to_base64.                                     *)

Threads == {1, 2}

\* The date range both requests ask for: Monday 2024-09-02 to Thursday 2024-09-05
ConcStart == 1
ConcEnd == 4

ConcDates == BusinessDays(ConcStart, ConcEnd)

NewThread ==
    [pc |-> "fetch", rng0 |-> [seed |-> 0, pos |-> 0], cols |-> << >>, images |-> << >>]

InitConc ==
    /\ rng \in {r \in RngStates : r.pos = 0}
    /\ figures = << >>
    /\ resp = Idle
    /\ thr = [t \in Threads |-> NewThread]
    /\ pca = NoPca

\* yf.download fails; generate_sample_data is entered
T_Fetch(t) ==
    /\ thr[t].pc = "fetch"
    /\ thr' = [thr EXCEPT ![t].pc = "gen", ![t].rng0 = rng]
    /\ UNCHANGED <<rng, figures, resp, pca>>

\* One iteration of the loop over the stocks (lines 42-52)
T_GenStock(t) ==
    /\ thr[t].pc = "gen"
    /\ \E g \in {GenStock(Len(thr[t].cols) + 1, Len(ConcDates), rng)} :
          /\ rng' = g.rng
          /\ thr' = [thr EXCEPT ![t].cols = Append(@, g.prices),
                                ![t].pc = IF Len(thr[t].cols) + 1 = N THEN "analyze" ELSE "gen"]
    /\ UNCHANGED <<figures, resp, pca>>

\* Lines 183-206: returns, PCA and summary use only the request's own data
T_Analyze(t) ==
    /\ thr[t].pc = "analyze"
    /\ thr' = [thr EXCEPT ![t].pc =
                  IF HasNaN(Cov(calculate_returns([dates |-> ConcDates, cols |-> thr[t].cols])))
                  THEN "done" ELSE "chart"]
    /\ UNCHANGED <<rng, figures, resp, pca>>

\* create_*_chart up to its call of plot_to_base64: plt.figure(...) and the
\* plotting calls
T_Chart(t) ==
    /\ thr[t].pc = "chart"
    /\ figures' = plt_draw(plt_figure(figures), <<t, ChartNames[Len(thr[t].images) + 1]>>)
    /\ thr' = [thr EXCEPT ![t].pc = "save"]
    /\ UNCHANGED <<rng, resp, pca>>

\* plot_to_base64: plt.savefig, plt.close
T_Save(t) ==
    /\ thr[t].pc = "save"
    /\ figures' = plt_close(figures)
    /\ thr' = [thr EXCEPT ![t].images = Append(@, plt_savefig(figures)),
                          ![t].pc = IF Len(thr[t].images) + 1 = Len(ChartNames)
                                    THEN "done" ELSE "chart"]
    /\ UNCHANGED <<rng, resp, pca>>

NextConc ==
    \E t \in Threads :
        \/ T_Fetch(t)
        \/ T_GenStock(t)
        \/ T_Analyze(t)
        \/ T_Chart(t)
        \/ T_Save(t)

SpecConc == InitConc /\ [][NextConc]_vars

----------------------------------------------------------------------------
(* Properties *)

Done == resp.phase = "done"

Synthetic == Done /\ resp.source = "synthetic"

ValidDates == resp.start \in 0 .. DefaultEnd /\ resp.end \in 0 .. DefaultEnd

Descending(ev) == \A i \in 1 .. (Len(ev) - 1) : ev[i] >= ev[i + 1]

\* C1: in every price series produced by generate_sample_data every price is
\* strictly positive and at least half the instrument's base price.
C1_PriceFloor ==
    Synthetic =>
        \A k \in 1 .. N : \A i \in 1 .. Len(resp.stock_data.cols[k]) :
            /\ resp.stock_data.cols[k][i] > 0
            /\ 2 * resp.stock_data.cols[k][i] >= base_prices[k]

\* C2: whenever the return table of a request is empty (the price table has
\* zero rows or one row) the request is answered 400 with success = false, and
\* the covariance/eigen-decomposition, summary and chart steps are not executed.
C2_EmptyReturnsAnswered400 ==
    (Done /\ resp.returnsComputed
          /\ (resp.returns.dates = << >> \/ Len(resp.stock_data.dates) <= 1)) =>
        /\ resp.status = 400
        /\ ~resp.success
        /\ ~resp.pcaRan
        /\ ~resp.summaryRan
        /\ ~resp.chartsRan

\* A request whose start equals its end on a Saturday was answered 400
C2_Witness ==
    /\ Synthetic
    /\ resp.start = resp.end
    /\ dayofweek(resp.start) = 5
    /\ resp.returnsComputed
    /\ resp.returns.dates = << >>
    /\ resp.status = 400

\* C3: a request whose start date is after its end date is rejected before
\* any price-series generation runs, with an error other than the one of the
\* empty range.
C3_InvalidRangeRejected ==
    (Done /\ resp.json /\ ValidDates /\ resp.start > resp.end) =>
        /\ resp.genCalls = 0
        /\ ~resp.success
        /\ resp.error # NoData

\* C4: within one request the fetch is attempted at most once; if it raises or
\* returns no data the generator is invoked exactly once, and the fetch
\* failure is not what the caller is answered.
C4_FetchOnceFallbackOnce ==
    Done =>
        /\ resp.fetchAttempts <= 1
        /\ (resp.fetchOutcome \in {"raise", "empty"} => resp.genCalls = 1)

\* C7: every date of the generated price series is a weekday within
\* [start, end], and every weekday of the range is present exactly once, in
\* ascending order.
C7_BusinessDaysExactly ==
    (Synthetic /\ ValidDates) =>
        LET ds == resp.stock_data.dates
        IN /\ \A i \in 1 .. Len(ds) :
                 /\ (ds[i] + DefaultStartDayOfWeek) % 7 \in 0 .. 4
                 /\ resp.start <= ds[i]
                 /\ ds[i] <= resp.end
           /\ \A i \in 1 .. (Len(ds) - 1) : ds[i] < ds[i + 1]
           /\ \A d \in resp.start .. resp.end :
                 (d + DefaultStartDayOfWeek) % 7 \in 0 .. 4 =>
                     Cardinality({i \in 1 .. Len(ds) : ds[i] = d}) = 1
           /\ \A k \in 1 .. N : Len(resp.stock_data.cols[k]) = Len(ds)

\* A generated series over a range that holds a whole weekend
C7_Witness ==
    /\ Synthetic
    /\ ValidDates
    /\ resp.end - resp.start >= 7
    /\ Len(resp.stock_data.dates) >= 5

ScenarioA == Synthetic /\ resp.start = 0 /\ resp.end = 9

PipelineShape(points, returns) ==
    /\ resp.status = 200
    /\ \A k \in 1 .. N :
          /\ Len(resp.stock_data.cols[k]) = points
          /\ Len(resp.returns.cols[k]) = returns
    /\ Len(resp.cov_matrix) = N
    /\ \A i \in 1 .. N : Len(resp.cov_matrix[i]) = N
    /\ Len(resp.eigenvalues) = N
    /\ Descending(resp.eigenvalues)

\* C8 as stated: for 2024-09-01 .. 2024-09-10 the synthetic pipeline yields 6
\* price points and 5 returns per instrument, a 5x5 covariance matrix and 5
\* eigenvalues sorted descending.
C8_ScenarioSixPoints == ScenarioA => PipelineShape(6, 5)

\* C8 amended: the range holds 7 business days, so the synthetic pipeline
\* yields 7 price points and 6 returns per instrument, a 5x5 covariance matrix
\* and 5 eigenvalues sorted descending.
C8_ScenarioSevenPoints == ScenarioA => PipelineShape(7, 6)

C8_Witness == ScenarioA /\ resp.status = 200 /\ resp.chartsRan

\* C10: calculate_returns of a price series of length n >= 1 has length n - 1
\* and the input dates without the first; of an empty series it is empty.
C10_ReturnsDropFirst ==
    (Done /\ resp.returnsComputed) =>
        LET n == Len(resp.stock_data.dates)
        IN /\ n >= 1 => resp.returns.dates = Tail(resp.stock_data.dates)
           /\ n = 0 => resp.returns.dates = << >>
           /\ \A k \in 1 .. N :
                 Len(resp.returns.cols[k]) = (IF n = 0 THEN 0 ELSE n - 1)

\* Returns were computed from a price series of three or more rows
C10_Witness ==
    /\ Done
    /\ resp.returnsComputed
    /\ Len(resp.stock_data.dates) >= 3
    /\ Len(resp.returns.dates) = Len(resp.stock_data.dates) - 1

\* C6: the eigenvalues are returned in descending order, each eigenvector
\* column moved with its eigenvalue, and of two equal eigenvalues the one with
\* the smaller original column index comes first.
C6_SortedTiesByIndex ==
    pca.stage # "input" /\ pca.stage # "none" =>
        /\ Descending(pca.eigenvalues)
        /\ {pca.eigenvectors[i] : i \in 1 .. N} = 1 .. N
        /\ \A i \in 1 .. N : pca.eigenvalues[i] = pca.unsorted[pca.eigenvectors[i]]
        /\ \A i, j \in 1 .. N :
              (i < j /\ pca.eigenvalues[i] = pca.eigenvalues[j]) =>
                  pca.eigenvectors[i] < pca.eigenvectors[j]

\* C9: when the eigenvalues sum to zero the summary reports variance_explained
\* as 0 and flags the condition.
C9_ZeroSumReportedZero ==
    (pca.stage = "summarised" /\ SumSeq(pca.eigenvalues) = 0) =>
        /\ pca.analysis.variance_explained = 0
        /\ \E f \in DOMAIN pca.analysis : f \notin DOMAIN NoAnalysis

\* C5: under any interleaving of two requests, each request's price series
\* and charts are those it produces when run alone from the generator state
\* it started with.
C5_RequestsIndependent ==
    \A t \in DOMAIN thr :
        /\ thr[t].pc \notin {"fetch", "gen"} =>
              thr[t].cols = GenFrom(1, Len(ConcDates), thr[t].rng0).cols
        /\ \A c \in 1 .. Len(thr[t].images) :
              thr[t].images[c] = {<<t, ChartNames[c]>>}

====
